---- MODULE Spec2Model ----
(***************************************************************************)
(* GensimAPI (src/GensimAPI.py): a facade that loads or trains a topic     *)
(* model at construction and classifies texts with it.                     *)
(*                                                                         *)
(* The state is the host platform (it fixes os.path.join's separator), the *)
(* files of the resource directory, the facade produced by the last        *)
(* construction, the last call with its arguments, and what that call did  *)
(* to the filesystem.  The gensim library is a collaborator: its file      *)
(* readers are modelled by the content of the file they are given, and its *)
(* failures that no file content decides (model construction, saving,      *)
(* unpickling an object of another class) are inputs of the construction.  *)
(***************************************************************************)
EXTENDS Integers, Sequences, FiniteSets, TLC

VARIABLES platform, fs, facade, call, io, built, classified, result

vars == <<platform, fs, facade, call, io, built, classified, result>>

(***************************************************************************)
(* Bounds of the model.                                                    *)
(***************************************************************************)
MaxTopics == 2    \* topics ranges over 1..MaxTopics
MaxDim == 2       \* dimension ranges over -1..MaxDim
MaxTextLen == 1   \* a text has at most MaxTextLen words
MaxOut == 3       \* SpecClassify: the library returns at most MaxOut pairs
MaxWeight == 2    \* SpecClassify: suitabilities range over 0..MaxWeight

(***************************************************************************)
(* Strings.  A selector is a sequence of characters, so that lower() is    *)
(* computed character by character; Str joins it into a path component.    *)
(***************************************************************************)
LowerChar(c) ==
    CASE c = "L" -> "l"
      [] c = "S" -> "s"
      [] c = "I" -> "i"
      [] c = "D" -> "d"
      [] c = "A" -> "a"
      [] OTHER -> c

lower(s) == [i \in DOMAIN s |-> LowerChar(s[i])]

RECURSIVE Str(_)
Str(s) == IF s = <<>> THEN "" ELSE Head(s) \o Str(Tail(s))

Selectors ==
    { <<"l", "s", "i">>, <<"L", "S", "I">>, <<"l", "d", "a">>, <<"s", "v", "m">> }

(***************************************************************************)
(* Class attributes of GensimAPI.                                          *)
(***************************************************************************)
PATH == "resources"
TF_IDF == "tfidf.mm"
WORD_IDS == "wordids.txt.bz2"
ALGOS == [k \in {"lsi", "lda"} |-> IF k = "lsi" THEN "LsiModel" ELSE "LdaModel"]

Platforms == {"posix", "nt"}

\* os.path.join(a, b)
Join(pf, a, b) == IF pf = "nt" THEN a \o "\\" \o b ELSE a \o "/" \o b

\* (variant: the path built with a literal backslash, as the loader does)
PersistPathBackslash(pf, algo) == PATH \o "\\trained." \o Str(lower(algo))
\* os.path.join(self.PATH, 'trained.' + str(algo).lower())
PersistPath(pf, algo) == Join(pf, PATH, "trained." \o Str(lower(algo)))

\* self.PATH + "\\trained." + str(algo).lower()
LoadPath(pf, algo) == PATH \o "\\trained." \o Str(lower(algo))

(***************************************************************************)
(* Files.                                                                  *)
(***************************************************************************)
None == [type |-> "None"]
Absent == [type |-> "absent"]
Corrupt == [type |-> "corrupt"]
WordIdsFile == [type |-> "wordids"]
MmFile == [type |-> "mm"]
ModelFile(kind, n) == [type |-> "model", kind |-> kind, num_topics |-> n]

Read(f, path) == IF path \in DOMAIN f THEN f[path] ELSE Absent

Write(f, path, content) ==
    [p \in DOMAIN f \cup {path} |-> IF p = path THEN content ELSE f[p]]

\* The vocabulary a well-formed wordids file holds.
WordIds == [w \in {"cat", "dog"} |-> IF w = "cat" THEN 0 ELSE 1]

\* gensim.corpora.Dictionary.load_from_text(path)
load_from_text(f, path) ==
    LET c == Read(f, path) IN
    IF c.type = "wordids"
    THEN [exc |-> "none", value |-> [type |-> "Dictionary", token2id |-> WordIds]]
    ELSE [exc |-> IF c.type = "absent" THEN "IOError" ELSE "ValueError",
          value |-> None]

\* gensim.corpora.MmCorpus(path)
MmCorpus(f, path) ==
    LET c == Read(f, path) IN
    IF c.type = "mm"
    THEN [exc |-> "none", value |-> [type |-> "MmCorpus"]]
    ELSE [exc |-> IF c.type = "absent" THEN "IOError" ELSE "ValueError",
          value |-> None]

\* The loader class _get_trained_algo calls load on.
Loader(algo) == "LdaModel"

\* cls.load(path).  A file pickled by another class is the library's to
\* accept or reject: lib = "mismatch_loads" is the run where it accepts.
load(cls, f, path, lib) ==
    LET c == Read(f, path) IN
    IF c.type = "model"
    THEN IF c.kind = cls \/ lib = "mismatch_loads"
         THEN [exc |-> "none",
               value |-> [type |-> "model", kind |-> c.kind,
                          num_topics |-> c.num_topics]]
         ELSE [exc |-> "LibraryError", value |-> None]
    ELSE [exc |-> IF c.type = "absent" THEN "IOError" ELSE "UnpicklingError",
          value |-> None]

\* func(corpus=mm, id2word=id2word, num_topics=topics)
_get_model(func, mm, id2word, topics, lib) ==
    IF lib = "build_fails"
    THEN [exc |-> "LibraryError", value |-> None]
    ELSE [exc |-> "none",
          value |-> [type |-> "model", kind |-> func, num_topics |-> topics]]

\* model.save(path): the outcome and the filesystem it leaves.
_persist(pf, f, model, algo, lib) ==
    LET path == PersistPath(pf, algo) IN
    CASE lib = "save_fails" -> [exc |-> "IOError", fs |-> f, writes |-> {}]
      [] lib = "save_partial" ->
            [exc |-> "IOError", fs |-> Write(f, path, Corrupt), writes |-> {path}]
      [] OTHER ->
            [exc |-> "none",
             fs |-> Write(f, path, ModelFile(model.kind, model.num_topics)),
             writes |-> {path}]

\* (variant: except IOError)
CatchesIOErrorOnly(exc) == exc = "IOError"
\* except Exception
Catches(exc) == TRUE

\* (variant: the except branch returns whatever was loaded so far)
ExceptReturnLocals(model, dictionary) == <<model, dictionary>>
\* return None, None
ExceptReturn(model, dictionary) == <<None, None>>

\* (variant: the membership test left out)
SupportedAlways(algo) == TRUE
\* if algo.lower() not in self.ALGOS.keys()
Supported(algo) == Str(lower(algo)) \in DOMAIN ALGOS

(***************************************************************************)
(* _train_algo and _get_trained_algo.  The body of each try block is a     *)
(* chain of steps over a record of its local variables: exc is the         *)
(* exception raised so far ("none" while none was), and a step that finds  *)
(* one raised does nothing.  reads and writes are the paths accessed.      *)
(***************************************************************************)
Locals(f) ==
    [exc |-> "none", model |-> None, dictionary |-> None, mm |-> None,
     fs |-> f, reads |-> {}, writes |-> {}]

\* dictionary = gensim.corpora.Dictionary.load_from_text(...)
LoadDictionary(pf, s) ==
    IF s.exc # "none" THEN s
    ELSE LET d == load_from_text(s.fs, Join(pf, PATH, WORD_IDS)) IN
         [s EXCEPT !.exc = d.exc, !.dictionary = d.value,
                   !.reads = @ \cup {Join(pf, PATH, WORD_IDS)}]

\* mm = gensim.corpora.MmCorpus(...)
LoadCorpus(pf, s) ==
    IF s.exc # "none" THEN s
    ELSE LET c == MmCorpus(s.fs, Join(pf, PATH, TF_IDF)) IN
         [s EXCEPT !.exc = c.exc, !.mm = c.value,
                   !.reads = @ \cup {Join(pf, PATH, TF_IDF)}]

\* model = self._get_model(self.ALGOS[algo], mm, dictionary, topics)
BuildModel(algo, topics, lib, s) ==
    IF s.exc # "none" THEN s
    ELSE IF Str(algo) \notin DOMAIN ALGOS THEN [s EXCEPT !.exc = "KeyError"]
    ELSE LET m == _get_model(ALGOS[Str(algo)], s.mm, s.dictionary, topics, lib) IN
         [s EXCEPT !.exc = m.exc, !.model = m.value]

\* self._persist(model, algo)
PersistModel(pf, algo, lib, s) ==
    IF s.exc # "none" THEN s
    ELSE LET p == _persist(pf, s.fs, s.model, algo, lib) IN
         [s EXCEPT !.exc = p.exc, !.fs = p.fs, !.writes = p.writes]

\* model = gensim.models.ldamodel.LdaModel.load(...)
LoadModel(pf, algo, lib, s) ==
    IF s.exc # "none" THEN s
    ELSE LET m == load(Loader(algo), s.fs, LoadPath(pf, algo), lib) IN
         [s EXCEPT !.exc = m.exc, !.model = m.value,
                   !.reads = @ \cup {LoadPath(pf, algo)}]

\* except Exception: return None, None / else: return model, dictionary.
\* escaped is the exception the except clause did not catch.
TryResult(s, loader) ==
    [ret |-> IF s.exc = "none" THEN <<s.model, s.dictionary>>
             ELSE ExceptReturn(s.model, s.dictionary),
     escaped |-> IF s.exc = "none" \/ Catches(s.exc) THEN "none" ELSE s.exc,
     raised |-> s.exc, reads |-> s.reads, writes |-> s.writes, fs |-> s.fs,
     loader |-> loader]

_train_algo(pf, f, algo, topics, lib) ==
    TryResult(
        PersistModel(pf, algo, lib,
            BuildModel(algo, topics, lib,
                LoadCorpus(pf, LoadDictionary(pf, Locals(f))))),
        "none")

_get_trained_algo(pf, f, algo, lib) ==
    TryResult(LoadDictionary(pf, LoadModel(pf, algo, lib, Locals(f))), Loader(algo))

Unset == [type |-> "unset"]
NoIo == [reads |-> {}, writes |-> {}, raised |-> "none", loader |-> "none"]

\* self.model, self.dictionary = ...; if self.model is None or
\* self.dictionary is None: raise NotTrainedError
Assign(r) ==
    [facade |->
        IF r.escaped # "none"
        THEN [status |-> r.escaped, model |-> Unset, dictionary |-> Unset]
        ELSE [status |-> IF r.ret[1] = None \/ r.ret[2] = None
                         THEN "NotTrainedError" ELSE "ok",
              model |-> r.ret[1], dictionary |-> r.ret[2]],
     fs |-> r.fs,
     io |-> [reads |-> r.reads, writes |-> r.writes, raised |-> r.raised,
             loader |-> r.loader]]

\* GensimAPI(trained, algo, topics): the facade, the filesystem and the I/O
\* record a construction leaves.
Construct(pf, f, trained, algo, topics, lib) ==
    IF ~Supported(algo)
    THEN [facade |-> [status |-> "NotSupportedError", model |-> Unset,
                      dictionary |-> Unset],
          fs |-> f, io |-> NoIo]
    ELSE Assign(IF trained THEN _get_trained_algo(pf, f, algo, lib)
                ELSE _train_algo(pf, f, algo, topics, lib))

\* The library outcomes a construction can meet.
LibOutcomes(trained) ==
    IF trained THEN {"none", "mismatch_loads"}
    ELSE {"none", "build_fails", "save_fails", "save_partial"}

Constructed(c, trained, algo, topics) ==
    /\ facade' = c.facade
    /\ fs' = c.fs
    /\ io' = c.io
    /\ call' = [op |-> "init", trained |-> trained, algo |-> algo,
                topics |-> topics]
    /\ built' = [model |-> c.facade.model, dictionary |-> c.facade.dictionary,
                 fs |-> c.fs]
    /\ classified' = <<>>
    /\ result' = <<>>
    /\ UNCHANGED platform

__init__(trained, algo, topics, lib) ==
    Constructed(Construct(platform, fs, trained, algo, topics, lib),
                trained, algo, topics)

(***************************************************************************)
(* The initial filesystems: every file the facade can name is absent,      *)
(* corrupt or well formed (a model file holds a model of the algorithm its *)
(* name says, as an earlier training left it).                             *)
(***************************************************************************)
Files(pf) ==
    {Join(pf, PATH, WORD_IDS), Join(pf, PATH, TF_IDF)}
        \cup {Join(pf, PATH, "trained." \o k) : k \in DOMAIN ALGOS}
        \cup {PATH \o "\\trained." \o k : k \in DOMAIN ALGOS}

KindOfPath(pf, p) ==
    IF p \in {Join(pf, PATH, "trained.lsi"), PATH \o "\\trained.lsi"}
    THEN "LsiModel" ELSE "LdaModel"

Allowed(pf, p) ==
    IF p = Join(pf, PATH, WORD_IDS) THEN {Absent, Corrupt, WordIdsFile}
    ELSE IF p = Join(pf, PATH, TF_IDF) THEN {Absent, Corrupt, MmFile}
    ELSE {Absent, Corrupt, ModelFile(KindOfPath(pf, p), MaxTopics)}

Contents ==
    {Absent, Corrupt, WordIdsFile, MmFile, ModelFile("LsiModel", MaxTopics),
     ModelFile("LdaModel", MaxTopics)}

InitialFs(pf) ==
    {f \in [Files(pf) -> Contents] : \A p \in Files(pf) : f[p] \in Allowed(pf, p)}

Init ==
    /\ platform \in Platforms
    /\ fs \in InitialFs(platform)
    /\ facade = [status |-> "unconstructed", model |-> Unset, dictionary |-> Unset]
    /\ call = [op |-> "none"]
    /\ io = NoIo
    /\ built = [model |-> Unset, dictionary |-> Unset, fs |-> fs]
    /\ classified = <<>>
    /\ result = <<>>

(***************************************************************************)
(* classify_text.                                                          *)
(***************************************************************************)
Words == {"Cat", "zzz"}

RECURSIVE SeqsUpTo(_, _)
SeqsUpTo(S, n) ==
    IF n = 0 THEN {<<>>}
    ELSE LET shorter == SeqsUpTo(S, n - 1) IN
         shorter \cup {Append(s, x) : s \in shorter, x \in S}

Texts == SeqsUpTo(Words, MaxTextLen)
Dimensions == (0 - 1) .. MaxDim

\* wikicorpus.tokenize(text): the lower-cased words of the text.
tokenize(text) ==
    [i \in DOMAIN text |-> IF text[i] = "Cat" THEN "cat" ELSE text[i]]

Count(tokens, w) == Cardinality({i \in DOMAIN tokens : tokens[i] = w})

RECURSIVE BowFrom(_, _, _, _)
BowFrom(token2id, tokens, id, maxId) ==
    IF id > maxId THEN <<>>
    ELSE LET ws == {w \in DOMAIN token2id : token2id[w] = id}
             n == IF ws = {} THEN 0 ELSE Count(tokens, CHOOSE w \in ws : TRUE)
         IN  (IF n > 0 THEN <<<<id, n>>>> ELSE <<>>)
                 \o BowFrom(token2id, tokens, id + 1, maxId)

\* dictionary.doc2bow(tokens): the (id, count) pairs of the known tokens, by
\* id; unknown tokens are dropped.
doc2bow(dictionary, tokens) ==
    BowFrom(dictionary.token2id, tokens, 0, Cardinality(DOMAIN dictionary.token2id) - 1)

\* (variant: doc2bow(tokens, allow_update=True) gives unknown tokens new ids)
doc2bow_updating(dictionary, tokens) ==
    LET known == DOMAIN dictionary.token2id
        new == {tokens[i] : i \in DOMAIN tokens} \ known
    IN  IF new = {} THEN dictionary
        ELSE [dictionary EXCEPT !.token2id =
                 [w \in known \cup new |->
                     IF w \in known THEN dictionary.token2id[w]
                     ELSE Cardinality(known)]]
\* The dictionary doc2bow leaves: allow_update is not passed, so the same.
doc2bow_dictionary(dictionary, tokens) == dictionary

\* self.dictionary.doc2bow(wikicorpus.tokenize(text))
_get_query(dictionary, text) == doc2bow(dictionary, tokenize(text))

RECURSIVE BowWeight(_, _)
BowWeight(bow, t) ==
    IF bow = <<>> THEN 0
    ELSE Head(bow)[2] * ((Head(bow)[1] + t) % 2) + BowWeight(Tail(bow), t)

\* self.model[bow] in the lifecycle specification: a fixed function of the
\* model and the bag of words.  An LSI model projects onto every topic (and
\* onto none for an empty bag); an LDA model reports the topics above its
\* threshold (all of them, evenly, for an empty bag).
ModelOutput(model, bow) ==
    LET all == [t \in 1 .. model.num_topics |->
                   <<t - 1, IF model.kind = "LdaModel" /\ bow = <<>> THEN 1
                            ELSE BowWeight(bow, t - 1)>>]
    IN  IF model.kind = "LsiModel"
        THEN (IF bow = <<>> THEN <<>> ELSE all)
        ELSE SelectSeq(all, LAMBDA x : x[2] >= 1)

Reverse(s) == [i \in 1 .. Len(s) |-> s[Len(s) + 1 - i]]

\* One step of the stable sort: x goes after the entries whose key is not
\* greater than its own.
RECURSIVE InsertByKey(_, _)
InsertByKey(s, x) ==
    IF s = <<>> THEN <<x>>
    ELSE IF x[2] < Head(s)[2] THEN <<x>> \o s
    ELSE <<Head(s)>> \o InsertByKey(Tail(s), x)

RECURSIVE SortByKey(_)
SortByKey(s) ==
    IF s = <<>> THEN <<>>
    ELSE InsertByKey(SortByKey(SubSeq(s, 1, Len(s) - 1)), s[Len(s)])

\* (variant: sorted ascending and reversed, which reverses equal keys)
sorted_unstable(s) == Reverse(SortByKey(s))
\* sorted(classified, key=lambda x: x[1], reverse=True): the list is
\* reversed, sorted stably by ascending key, and reversed again.
sorted(s) == Reverse(SortByKey(Reverse(s)))

\* (variant: themes[:dimension + 1])
slice_one_more(themes, dimension) ==
    SubSeq(themes, 1, IF dimension + 1 < Len(themes) THEN dimension + 1 ELSE Len(themes))
\* themes[:dimension], with Python's reading of a negative stop
slice(themes, dimension) ==
    LET n == Len(themes)
        stop == IF dimension >= 0 THEN (IF dimension < n THEN dimension ELSE n)
                ELSE (IF n + dimension > 0 THEN n + dimension ELSE 0)
    IN  SubSeq(themes, 1, stop)

\* classify_text on the pairs the model returns for the text.
classify(text, dimension, out) ==
    /\ facade.status = "ok"
    /\ classified' = out
    /\ result' = slice(sorted(out), dimension)
    /\ facade' = [facade EXCEPT
                     !.dictionary = doc2bow_dictionary(facade.dictionary, tokenize(text))]
    /\ call' = [op |-> "classify", text |-> text, dimension |-> dimension]
    /\ UNCHANGED <<platform, fs, io, built>>

classify_text(text, dimension) ==
    classify(text, dimension,
             ModelOutput(facade.model, _get_query(facade.dictionary, text)))

Next ==
    \/ \E trained \in BOOLEAN, algo \in Selectors, topics \in 1 .. MaxTopics :
          \E lib \in LibOutcomes(trained) : __init__(trained, algo, topics, lib)
    \/ \E text \in Texts, dimension \in Dimensions : classify_text(text, dimension)

Spec == Init /\ [][Next]_vars

(***************************************************************************)
(* The classification specification.  It starts from a facade constructed  *)
(* with the default arguments on a resource directory whose files are all  *)
(* well formed, and applies classify_text once to every list of pairs the  *)
(* model may return: pairs of distinct topic ids, in any order, with any   *)
(* suitabilities.                                                          *)
(***************************************************************************)
Pairs == (0 .. MaxOut - 1) \X (0 .. MaxWeight)

Outputs ==
    {s \in SeqsUpTo(Pairs, MaxOut) :
        \A i, j \in DOMAIN s : i # j => s[i][1] # s[j][1]}

WellFormedFs(pf) ==
    [p \in Files(pf) |->
        IF p = Join(pf, PATH, WORD_IDS) THEN WordIdsFile
        ELSE IF p = Join(pf, PATH, TF_IDF) THEN MmFile
        ELSE ModelFile(KindOfPath(pf, p), MaxTopics)]

DefaultConstruct(pf) ==
    Construct(pf, WellFormedFs(pf), TRUE, <<"l", "d", "a">>, MaxTopics, "none")

InitClassify ==
    /\ platform \in Platforms
    /\ fs = DefaultConstruct(platform).fs
    /\ facade = DefaultConstruct(platform).facade
    /\ io = DefaultConstruct(platform).io
    /\ call = [op |-> "init", trained |-> TRUE, algo |-> <<"l", "d", "a">>,
               topics |-> MaxTopics]
    /\ built = [model |-> facade.model, dictionary |-> facade.dictionary,
                fs |-> fs]
    /\ classified = <<>>
    /\ result = <<>>

\* The first classify_text call on the fresh facade, for every text,
\* dimension and model output.
NextClassify ==
    /\ call.op = "init"
    /\ \E text \in Texts, dimension \in Dimensions, out \in Outputs :
          classify(text, dimension, out)

SpecClassify == InitClassify /\ [][NextClassify]_vars

(***************************************************************************)
(* Claims.                                                                 *)
(***************************************************************************)
InSupportedSet(algo) == Str(lower(algo)) \in {"lsi", "lda"}
DictPath == Join(platform, PATH, WORD_IDS)
CorpusPath == Join(platform, PATH, TF_IDF)
TrainedPath(algo) == Join(platform, PATH, "trained." \o Str(lower(algo)))
Min(a, b) == IF a < b THEN a ELSE b
Position(s, x) == CHOOSE i \in DOMAIN s : s[i] = x
Returned == {result[i] : i \in DOMAIN result}

\* C1: a construction whose selector, lower-cased, is neither "lsi" nor
\* "lda" raises NotSupportedError, whatever the trained flag and the
\* filesystem, and has read and written no path: the filesystem is unchanged.
C1_UnsupportedRaisesBeforeIO ==
    [][(call'.op = "init" /\ ~InSupportedSet(call'.algo))
          => /\ facade'.status = "NotSupportedError"
             /\ fs' = fs
             /\ io'.reads = {}
             /\ io'.writes = {}]_vars

C1_Witness ==
    /\ call.op = "init"
    /\ ~InSupportedSet(call.algo)
    /\ facade.status = "NotSupportedError"

\* C2: once a training construction (trained=false) has succeeded, a model
\* file exists at <resource directory>/trained.<lower-cased selector>, and
\* the next construction, with trained=true and the same selector on the
\* filesystem it left, reads that path and succeeds.
C2_TrainThenLoadSucceeds ==
    [][(/\ call.op = "init" /\ ~call.trained /\ facade.status = "ok"
        /\ call'.op = "init" /\ call'.trained /\ call'.algo = call.algo)
          => /\ fs[TrainedPath(call.algo)].type = "model"
             /\ TrainedPath(call.algo) \in io'.reads
             /\ facade'.status = "ok"]_vars

\* C3: a selector that is "lsi" or "lda" up to letter case never raises
\* NotSupportedError, and with trained=false, a well-formed dictionary and
\* corpus and no failure of the library, the construction succeeds with a
\* model of the requested algorithm, persisted at trained.<selector>.
C3_CaseInsensitiveTraining ==
    (call.op = "init" /\ InSupportedSet(call.algo))
        => /\ facade.status # "NotSupportedError"
           /\ (/\ ~call.trained
               /\ fs[DictPath].type = "wordids"
               /\ fs[CorpusPath].type = "mm"
               /\ io.raised \notin {"LibraryError", "IOError"})
                 => /\ facade.status = "ok"
                    /\ facade.model.kind = ALGOS[Str(lower(call.algo))]
                    /\ fs[TrainedPath(call.algo)].type = "model"

\* C4: the only errors a construction raises are NotSupportedError and
\* NotTrainedError; for a supported selector, every exception raised in the
\* load path or in the train path (a missing or corrupt model file,
\* dictionary or corpus, a failed model construction or save) ends in
\* NotTrainedError.
C4_FailuresBecomeNotTrained ==
    call.op = "init"
        => /\ facade.status \in {"ok", "NotSupportedError", "NotTrainedError"}
           /\ (InSupportedSet(call.algo) /\ io.raised # "none")
                 => facade.status = "NotTrainedError"
           /\ (/\ InSupportedSet(call.algo)
               /\ \/ fs[DictPath].type # "wordids"
                  \/ ~call.trained /\ fs[CorpusPath].type # "mm"
                  \/ call.trained /\ Read(fs, LoadPath(platform, call.algo)).type # "model")
                 => facade.status = "NotTrainedError"

C4_Witness ==
    /\ call.op = "init"
    /\ InSupportedSet(call.algo)
    /\ io.raised \in {"UnpicklingError", "ValueError", "KeyError", "LibraryError"}
    /\ facade.status = "NotTrainedError"

\* C5: the load and train helpers return a model and a dictionary or
\* neither, and a facade whose construction did not raise holds both.
C5_ModelAndDictionaryTogether ==
    /\ facade.status \in {"ok", "NotTrainedError"}
          => ((facade.model = None) <=> (facade.dictionary = None))
    /\ facade.status = "ok"
          => facade.model.type = "model" /\ facade.dictionary.type = "Dictionary"

C5_Witness ==
    /\ call.op = "init"
    /\ call.trained
    /\ Read(fs, LoadPath(platform, call.algo)).type = "model"
    /\ fs[DictPath].type # "wordids"
    /\ io.reads = {LoadPath(platform, call.algo), DictPath}
    /\ facade.model = None
    /\ facade.dictionary = None

\* C6: for a positive dimension k and a model output of n pairs,
\* classify_text returns min(k, n) pairs, so at most k, whose
\* suitabilities do not increase from first to last.
C6_AtMostKNonIncreasing ==
    (call.op = "classify" /\ call.dimension > 0)
        => /\ Len(result) <= call.dimension
           /\ Len(result) = Min(call.dimension, Len(classified))
           /\ \A i \in 1 .. Len(result) - 1 : result[i][2] >= result[i + 1][2]

C6_Witness ==
    /\ call.op = "classify"
    /\ call.dimension > 0
    /\ Len(classified) > call.dimension
    /\ classified[1][2] < classified[Len(classified)][2]
    /\ Len(result) = call.dimension

C8_StableSortPrefix ==
    call.op = "classify"
        => /\ call.dimension >= 0
                 => Len(result) = Min(call.dimension, Len(classified))
           /\ \A i \in DOMAIN result : \E j \in DOMAIN classified :
                 classified[j] = result[i]
           /\ \A i, k \in DOMAIN result : i # k => result[i] # result[k]
           /\ \A i, k \in DOMAIN result :
                 i < k => \/ result[i][2] > result[k][2]
                          \/ /\ result[i][2] = result[k][2]
                             /\ Position(classified, result[i])
                                    < Position(classified, result[k])
           /\ \A j \in DOMAIN classified : \A i \in DOMAIN result :
                 classified[j] \notin Returned
                     => \/ classified[j][2] < result[i][2]
                        \/ /\ classified[j][2] = result[i][2]
                           /\ Position(classified, result[i]) < j

C8_Witness ==
    /\ call.op = "classify"
    /\ Len(classified) = 3
    /\ classified[1][2] < classified[2][2]
    /\ classified[2][2] = classified[3][2]
    /\ call.dimension = 2
    /\ result = <<classified[2], classified[3]>>

\* C9: a facade constructed with trained=true holds a model of the
\* selector's algorithm, loaded by that algorithm's loader.
C9_LoaderMatchesSelector ==
    (call.op = "init" /\ call.trained /\ facade.status = "ok")
        => /\ io.loader = ALGOS[Str(lower(call.algo))]
           /\ facade.model.kind = ALGOS[Str(lower(call.algo))]

====
